---- MODULE Spec2Model ----
(***************************************************************************)
(* Lighthouse coverage combobox (plugin/lighthouse/ui/coverage_combobox.py) *)
(*                                                                         *)
(* The widget is a QComboBox (CoverageComboBox) whose popup is a two       *)
(* column QTableView (CoverageComboBoxView) over a QAbstractTableModel     *)
(* (CoverageComboBoxModel).  The director owns the lists of names and the  *)
(* current selection; the widget observes it through four notifications    *)
(* and sends it two commands.  Everything runs on the UI thread, so every  *)
(* handler runs to completion, nested callbacks included, in one step.     *)
(*                                                                         *)
(* Rows and columns are numbered from 0 as in the source; the entry of row *)
(* r is entries[r + 1].                                                    *)
(***************************************************************************)
EXTENDS Integers, Sequences, FiniteSets, TLC

\* ------------------------------------------------------------------------
\* Constants Definitions (coverage_combobox.py:10-17)
\* ------------------------------------------------------------------------

SEPARATOR == "seperator"
ENTRY_USER == "USER"
ENTRY_SPECIAL == "SPECIAL"
COLUMN_COVERAGE_STRING == 0
COLUMN_DELETE == 1

\* Python's None, the model's scaled 'X' pixmap, and the toolkit's item flags
None == "None"
delete_icon == "delete_icon"
ItemIsEnabled == "ItemIsEnabled"
ItemIsSelectable == "ItemIsSelectable"
NoItemFlags == {}

\* ------------------------------------------------------------------------
\* Bounds
\* ------------------------------------------------------------------------

MaxSpecial == 2
MaxUser == 2

\* the identifiers the director can supply
SpecialNames == {"Hot Shell", "New Composition", "Aggregate"}
UserNames == {"a.log", "b.log", "c.log"}

Range(s) == {s[i] : i \in 1..Len(s)}

\* the lists without repetition of at least lo and at most hi names of S
Lists(S, lo, hi) ==
    UNION {{s \in [1..n -> S] : \A i, j \in 1..n : s[i] = s[j] => i = j} : n \in lo..hi}

\* the lists of special names and of user names the director can hold
SpecialLists == Lists(SpecialNames, 1, MaxSpecial)

UserLists == Lists(UserNames, 0, MaxUser)

VARIABLES
    special_names,      \* director.special_names
    coverage_names,     \* director.coverage_names
    coverage_name,      \* director.coverage_name, the current selection
    entries,            \* CoverageComboBoxModel._entries
    seperator_index,    \* CoverageComboBoxModel._seperator_index
    spans,              \* CoverageComboBoxView: the rows whose two cells are merged
    currentIndex,       \* CoverageComboBox.currentIndex(), -1 when there is none
    signalsBlocked,     \* CoverageComboBox.signalsBlocked()
    last                \* history: the handler that ran last and what it did

vars == <<special_names, coverage_names, coverage_name, entries, seperator_index,
          spans, currentIndex, signalsBlocked, last>>

\* ------------------------------------------------------------------------
\* CoverageComboBoxModel
\* ------------------------------------------------------------------------

rowCount(ents) == Len(ents)

columnCount == 2

InvalidIndex == [row |-> -1, column |-> -1, valid |-> FALSE]

\* QAbstractTableModel.index(row, column): an invalid index outside the table
index(ents, row, column) ==
    IF row >= 0 /\ row < rowCount(ents) /\ column >= 0 /\ column < columnCount
    THEN [row |-> row, column |-> column, valid |-> TRUE]
    ELSE InvalidIndex

\* director.get_coverage_string(name): the display string of an entry
get_coverage_string(name) == <<"coverage string of", name>>

\* an icon handed out for the separator row as well
data_DecorationRole_at_separator(sep, idx) ==
    IF idx.column = COLUMN_DELETE /\ idx.row >= sep
    THEN delete_icon
    ELSE None

\* the DecorationRole branch of data(): the 'X' icon of a cell
data_DecorationRole(sep, idx) ==
    IF idx.column = COLUMN_DELETE /\ idx.row > sep
    THEN delete_icon
    ELSE None

data(ents, sep, idx, role) ==
    IF ~idx.valid \/ ~(idx.row < rowCount(ents)) \/ ~(idx.column < columnCount)
    THEN None
    ELSE CASE role = "FontRole" -> "font"
           [] role = "TextAlignmentRole" -> "AlignVCenter|AlignLeft"
           [] role = "DisplayRole" ->
                IF idx.column = COLUMN_COVERAGE_STRING /\ idx.row # sep
                THEN get_coverage_string(ents[idx.row + 1])
                ELSE None
           [] role = "DecorationRole" -> data_DecorationRole(sep, idx)
           [] role = "AccessibleDescriptionRole" ->
                IF idx.row < sep THEN ENTRY_SPECIAL
                ELSE IF idx.row = sep THEN SEPARATOR
                ELSE ENTRY_USER
           [] role = "UserRole" -> ents[idx.row + 1]
           [] OTHER -> None

\* flags without the branch that makes the separator inert
flags_separator_selectable(sep, idx) ==
    IF idx.column = COLUMN_DELETE THEN {ItemIsEnabled}
    ELSE IF idx.valid THEN {ItemIsEnabled, ItemIsSelectable}
    ELSE NoItemFlags

flags(sep, idx) ==
    IF idx.column = COLUMN_DELETE THEN {ItemIsEnabled}
    ELSE IF idx.row = sep THEN NoItemFlags
    ELSE IF idx.valid THEN {ItemIsEnabled, ItemIsSelectable}
    ELSE NoItemFlags

\* list.index(x): the position, from 0, of the first occurrence
ListIndex(s, x) ==
    (CHOOSE i \in 1..Len(s) : s[i] = x /\ \A j \in 1..(i - 1) : s[j] # x) - 1

\* a refresh that forgets to save the index of the separator
Model_refresh_stale_index(w, d) ==
    [w EXCEPT !.entries = d.special_names \o <<SEPARATOR>> \o d.coverage_names]

\* a refresh that forgets to empty the list before it re-populates it
Model_refresh_append(w, d) ==
    LET ents == w.entries \o d.special_names \o <<SEPARATOR>> \o d.coverage_names
    IN  [w EXCEPT !.entries = ents, !.seperator_index = ListIndex(ents, SEPARATOR)]

\* CoverageComboBoxModel.refresh: the widget w rebuilt from the director d
Model_refresh(w, d) ==
    LET ents == d.special_names \o <<SEPARATOR>> \o d.coverage_names
    IN  [w EXCEPT !.entries = ents, !.seperator_index = ListIndex(ents, SEPARATOR)]

\* ------------------------------------------------------------------------
\* CoverageComboBoxView
\* ------------------------------------------------------------------------

\* QTableView.setSpan as the view calls it: the toolkit ignores a span with a
\* row or column count of 0 or less, drops an existing span when given 1 x 1,
\* and merges the cells of the row otherwise
setSpan(sp, row, column, rowSpan, columnSpan) ==
    IF row < 0 \/ column < 0 \/ rowSpan <= 0 \/ columnSpan <= 0 THEN sp
    ELSE IF row \in sp
         THEN (IF rowSpan = 1 /\ columnSpan = 1 THEN sp \ {row} ELSE sp)
         ELSE (IF rowSpan = 1 /\ columnSpan = 1 THEN sp ELSE sp \cup {row})

RECURSIVE View_refresh_from(_, _, _, _)
View_refresh_from(sp, ents, sep, row) ==
    IF row >= rowCount(ents) THEN sp
    ELSE LET type == data(ents, sep, index(ents, row, 0), "AccessibleDescriptionRole")
             sp2 == IF type # ENTRY_USER
                    THEN setSpan(sp, row, 0, 1, columnCount)
                    ELSE setSpan(sp, row, 0, 0, columnCount)
         IN  View_refresh_from(sp2, ents, sep, row + 1)

\* CoverageComboBoxView.refresh
View_refresh(w) ==
    [w EXCEPT !.spans = View_refresh_from(w.spans, w.entries, w.seperator_index, 0)]

\* ------------------------------------------------------------------------
\* CoverageComboBox
\* ------------------------------------------------------------------------

\* QComboBox.findData(value): the first row whose UserRole data is value, or -1
findData(ents, sep, value) ==
    LET rows == {r \in 0..(rowCount(ents) - 1) :
                    data(ents, sep, index(ents, r, 0), "UserRole") = value}
    IN  IF rows = {} THEN -1
        ELSE CHOOSE r \in rows : \A q \in rows : r <= q

\* a selection refresh that looks the row up but never sets it
refresh_selection_keep_index(w, d) ==
    LET w1 == [w EXCEPT !.signalsBlocked = TRUE]
    IN  [w1 EXCEPT !.signalsBlocked = FALSE]

\* a selection refresh that never unblocks the signals
refresh_selection_stays_blocked(w, d) ==
    LET w1 == [w EXCEPT !.signalsBlocked = TRUE]
        new_index == findData(w1.entries, w1.seperator_index, d.coverage_name)
    IN  [w1 EXCEPT !.currentIndex = new_index]

\* CoverageComboBox._refresh_selection
refresh_selection(w, d) ==
    LET w1 == [w EXCEPT !.signalsBlocked = TRUE]
        new_index == findData(w1.entries, w1.seperator_index, d.coverage_name)
        w2 == [w1 EXCEPT !.currentIndex = new_index]
    IN  [w2 EXCEPT !.signalsBlocked = FALSE]

\* CoverageComboBox.refresh
ComboBox_refresh(w, d) ==
    refresh_selection(View_refresh(Model_refresh(w, d)), d)

\* The callbacks the widget registers with the director: the model registers
\* its own refresh for created and deleted (CoverageComboBoxModel.__init__),
\* the combobox registers its refresh for switched and modified
\* (CoverageComboBox._ui_init_signals)
on_coverage_created(w, d) == Model_refresh(w, d)

on_coverage_deleted(w, d) == Model_refresh(w, d)

\* a switched notification wired to the model's refresh alone
on_coverage_switched_model_only(w, d) == Model_refresh(w, d)

on_coverage_switched(w, d) == ComboBox_refresh(w, d)

on_coverage_modified(w, d) == ComboBox_refresh(w, d)

\* ------------------------------------------------------------------------
\* The director: it owns the names and the selection, and calls the
\* registered callbacks synchronously when something changed
\* ------------------------------------------------------------------------

Listed(d) == Range(d.special_names) \cup Range(d.coverage_names)

Remove(s, x) == SelectSeq(s, LAMBDA y : y # x)

\* director.select_coverage(name): switches to a listed name
select_coverage(d, w, name) ==
    IF name \in Listed(d)
    THEN LET d2 == [d EXCEPT !.coverage_name = name]
         IN  [d |-> d2, w |-> on_coverage_switched(w, d2)]
    ELSE [d |-> d, w |-> w]

\* director.delete_coverage(name): removes a user data set, after switching
\* away from it when it is the current selection; the special entries are fixed
delete_coverage(d, w, name) ==
    IF name \in Range(d.coverage_names)
    THEN LET s == IF name = d.coverage_name
                  THEN select_coverage(d, w, d.special_names[1])
                  ELSE [d |-> d, w |-> w]
             d2 == [s.d EXCEPT !.coverage_names = Remove(@, name)]
         IN  [d |-> d2, w |-> on_coverage_deleted(s.w, d2)]
    ELSE [d |-> d, w |-> w]

\* ------------------------------------------------------------------------
\* CoverageComboBox - Signal Handlers
\* ------------------------------------------------------------------------

\* the widget calling director.select_coverage / director.delete_coverage:
\* w.cmds lists the commands the widget sent while handling the current event
Command(op, name) == [op |-> op, name |-> name]

Issue(w, op, name) == [w EXCEPT !.cmds = Append(@, Command(op, name))]

ui_selection_changed(w, d, row) ==
    LET idx == index(w.entries, row, 0)
        name == data(w.entries, w.seperator_index, idx, "UserRole")
        r == select_coverage(d, Issue(w, "select_coverage", name), name)
    IN  [d |-> r.d, w |-> r.w, outcome |-> "done"]

\* a delete handler without the sanity check on the clicked column
ui_clicked_delete_unchecked_column(w, d, idx) ==
    IF ~idx.valid
    THEN [d |-> d, w |-> w, outcome |-> "return"]
    ELSE LET name == data(w.entries, w.seperator_index, idx, "UserRole")
         IN  IF name = None \/ name = ""
             THEN [d |-> d, w |-> w, outcome |-> "AssertionError"]
             ELSE LET r == delete_coverage(d, Issue(w, "delete_coverage", name), name)
                  IN  [d |-> r.d, w |-> refresh_selection(r.w, r.d),
                       outcome |-> "done"]

\* showPopup() and the clearing of the popup's highlight change nothing of the
\* state modelled here; a failed assert raises out of the handler
ui_clicked_delete(w, d, idx) ==
    IF ~idx.valid
    THEN [d |-> d, w |-> w, outcome |-> "return"]
    ELSE IF idx.column # COLUMN_DELETE
    THEN [d |-> d, w |-> w, outcome |-> "AssertionError"]
    ELSE LET name == data(w.entries, w.seperator_index, idx, "UserRole")
         IN  IF name = None \/ name = ""
             THEN [d |-> d, w |-> w, outcome |-> "AssertionError"]
             ELSE LET r == delete_coverage(d, Issue(w, "delete_coverage", name), name)
                  IN  [d |-> r.d, w |-> refresh_selection(r.w, r.d),
                       outcome |-> "done"]

\* ------------------------------------------------------------------------
\* The state machine
\* ------------------------------------------------------------------------

D == [special_names |-> special_names, coverage_names |-> coverage_names,
      coverage_name |-> coverage_name]

W == [entries |-> entries, seperator_index |-> seperator_index, spans |-> spans,
      currentIndex |-> currentIndex, signalsBlocked |-> signalsBlocked,
      cmds |-> <<>>]

Rows == 0..(rowCount(entries) - 1)

Become(d, w) ==
    /\ special_names' = d.special_names
    /\ coverage_names' = d.coverage_names
    /\ coverage_name' = d.coverage_name
    /\ entries' = w.entries
    /\ seperator_index' = w.seperator_index
    /\ spans' = w.spans
    /\ currentIndex' = w.currentIndex
    /\ signalsBlocked' = w.signalsBlocked

\* what a notification that left the widget as w leaves in the history; every
\* notification runs the model's refresh
Notified(kind, w) ==
    [kind |-> kind, index |-> InvalidIndex, type |-> None, outcome |-> "done",
     cmds |-> w.cmds, pre |-> <<>>, preSep |-> 0, preCur |-> -1, preName |-> None,
     refreshed |-> kind # "init"]

\* what a user event on the index idx leaves in the history; a user event
\* that refreshes the model needs a row, so it is never the first to do so
Handled(kind, idx, r) ==
    [kind |-> kind, index |-> idx,
     type |-> data(entries, seperator_index, idx, "AccessibleDescriptionRole"),
     outcome |-> r.outcome, cmds |-> r.w.cmds, pre |-> entries,
     preSep |-> seperator_index, preCur |-> currentIndex,
     preName |-> coverage_name, refreshed |-> last.refreshed]

\* CoverageComboBox.__init__ on a director that already holds its names: the
\* model is created empty and nothing refreshes it
Init ==
    /\ special_names \in SpecialLists
    /\ coverage_names \in UserLists
    /\ coverage_name \in Range(special_names) \cup Range(coverage_names)
    /\ entries = <<>>
    /\ seperator_index = 0
    /\ spans = {}
    /\ currentIndex = -1
    /\ signalsBlocked = FALSE
    /\ last = Notified("init", W)

\* the director loads a new data set and notifies coverage_created
CoverageCreated(n) ==
    /\ Len(coverage_names) < MaxUser
    /\ n \notin Range(coverage_names)
    /\ LET d == [D EXCEPT !.coverage_names = Append(@, n)]
           w == on_coverage_created(W, d)
       IN  Become(d, w) /\ last' = Notified("coverage_created", w)

\* the director drops a data set on its own and notifies coverage_deleted
CoverageDeleted(n) ==
    /\ n \in Range(coverage_names)
    /\ LET r == delete_coverage(D, W, n)
       IN  Become(r.d, r.w) /\ last' = Notified("coverage_deleted", r.w)

\* the director switches its selection on its own and notifies coverage_switched
CoverageSwitched(n) ==
    /\ n \in Listed(D)
    /\ LET r == select_coverage(D, W, n)
       IN  Become(r.d, r.w) /\ last' = Notified("coverage_switched", r.w)

\* the director's data changed (its special entries included) and it notifies
\* coverage_modified
CoverageModified(sp) ==
    /\ coverage_name \in Range(sp) \cup Range(coverage_names)
    /\ LET d == [D EXCEPT !.special_names = sp]
           w == on_coverage_modified(W, d)
       IN  Become(d, w) /\ last' = Notified("coverage_modified", w)

\* the cell of the popup under the mouse: a merged row only has its first cell
indexAt(row, column) ==
    IF row \in spans THEN index(entries, row, 0) ELSE index(entries, row, column)

Selectable(idx) == {ItemIsEnabled, ItemIsSelectable} \subseteq flags(seperator_index, idx)

\* the user activates a row of the dropdown: the combobox emits activated(row)
\* for an enabled and selectable entry
Activated(row) ==
    /\ Selectable(index(entries, row, 0))
    /\ LET r == ui_selection_changed(W, D, row)
       IN  /\ Become(r.d, r.w)
           /\ last' = Handled("activated", index(entries, row, 0), r)

\* the user clicks a cell of the popup that the combobox does not take as an
\* activation: the view emits clicked(index)
Clicked(row, column) ==
    /\ indexAt(row, column).valid
    /\ ~Selectable(indexAt(row, column))
    /\ LET idx == indexAt(row, column)
           r == ui_clicked_delete(W, D, idx)
       IN  /\ Become(r.d, r.w)
           /\ last' = Handled("clicked", idx, r)

\* the delete handler called with an index that is not valid (QModelIndex())
ClickedInvalid ==
    LET r == ui_clicked_delete(W, D, InvalidIndex)
    IN  /\ Become(r.d, r.w)
        /\ last' = Handled("clicked", InvalidIndex, r)

MaxRows == MaxSpecial + 1 + MaxUser

Next ==
    \/ \E n \in UserNames : CoverageCreated(n)
    \/ \E n \in UserNames : CoverageDeleted(n)
    \/ \E n \in SpecialNames \cup UserNames : CoverageSwitched(n)
    \/ \E sp \in SpecialLists : CoverageModified(sp)
    \/ \E row \in 0..(MaxRows - 1) : Activated(row)
    \/ \E row \in 0..(MaxRows - 1) : \E column \in 0..(columnCount - 1) :
          Clicked(row, column)
    \/ ClickedInvalid

Spec == Init /\ [][Next]_vars

TypeOK ==
    /\ signalsBlocked \in BOOLEAN
    /\ currentIndex \in -1..MaxRows

\* ------------------------------------------------------------------------
\* Properties
\* ------------------------------------------------------------------------

Notifications ==
    {"coverage_created", "coverage_deleted", "coverage_switched", "coverage_modified"}

EntryAt(row) == entries[row + 1]

RowType(row) ==
    data(entries, seperator_index, index(entries, row, 0), "AccessibleDescriptionRole")

\* the list the director supplies at this moment
DirectorList == special_names \o <<SEPARATOR>> \o coverage_names

\* the marker occurs exactly once, the stored index is its position, the rows
\* before it are special entries of the director and the rows after it are
\* user entries of the director
SeparatorPartition ==
    /\ Cardinality({i \in 1..Len(entries) : entries[i] = SEPARATOR}) = 1
    /\ seperator_index \in Rows
    /\ EntryAt(seperator_index) = SEPARATOR
    /\ \A row \in Rows :
          /\ row < seperator_index =>
                RowType(row) = ENTRY_SPECIAL /\ EntryAt(row) \in Range(special_names)
          /\ row > seperator_index =>
                RowType(row) = ENTRY_USER /\ EntryAt(row) \in Range(coverage_names)

NonUserRowsMerged == \A row \in Rows : row <= seperator_index => row \in spans

\* the current index is the row that holds the director's selection
SelectionSynchronised ==
    /\ currentIndex \in Rows
    /\ EntryAt(currentIndex) = coverage_name

FullyRefreshed ==
    /\ entries = DirectorList
    /\ NonUserRowsMerged
    /\ SelectionSynchronised

\* C2 as stated: once any of the four notifications has been handled the
\* model is rebuilt, the spans are recomputed for the new rows and the
\* current index is re-synchronised with the director's selection
C2_EveryNotificationRefreshesAll == last.kind \in Notifications => FullyRefreshed

\* C2 as amended: switched and modified trigger the full refresh; created and
\* deleted rebuild the model's list only, and a created notification leaves
\* the view's spans as they were
C2_SwitchedModifiedRefreshAll ==
    [][/\ last'.kind \in {"coverage_switched", "coverage_modified"} => FullyRefreshed'
       /\ last'.kind \in {"coverage_created", "coverage_deleted"} =>
             entries' = DirectorList'
       /\ last'.kind = "coverage_created" => spans' = spans]_vars

\* a switched notification handled with the selection on a user row
C2_Witness ==
    /\ last.kind = "coverage_switched"
    /\ seperator_index \in spans
    /\ currentIndex > seperator_index

\* C3: every delete_coverage command the widget issues names a row the model
\* classified as USER at the time of the click, never a special entry and
\* never the separator marker
C3_DeleteOnlyUserRows ==
    \A i \in 1..Len(last.cmds) :
        last.cmds[i].op = "delete_coverage" =>
            /\ last.type = ENTRY_USER
            /\ last.cmds[i].name \notin Range(special_names)
            /\ last.cmds[i].name # SEPARATOR

\* the list s without its element at row (from 0)
RemoveAt(s, row) == [i \in 1..(Len(s) - 1) |-> IF i <= row THEN s[i] ELSE s[i + 1]]

\* C4: a click on the delete column of row r issues exactly one
\* delete_coverage carrying the name row r held at the click, and once the
\* handler has completed that name is gone from the entry list while all
\* other entries remain in order, the rows below r shifted up by one
C4_DeleteRemovesClickedEntry ==
    (last.kind = "clicked" /\ last.index.column = COLUMN_DELETE) =>
        /\ last.cmds = <<Command("delete_coverage", last.pre[last.index.row + 1])>>
        /\ last.pre[last.index.row + 1] \notin Range(entries)
        /\ entries = RemoveAt(last.pre, last.index.row)

\* the handlers that end with the selection refreshed
SelectionRefreshed ==
    \/ last.kind \in {"coverage_switched", "coverage_modified", "activated"}
    \/ last.kind = "clicked" /\ last.outcome = "done"

\* C5: after every completed CoverageComboBox.refresh() and after every
\* completed delete-click handler the current index is the row whose entry
\* is the director's current selection name, whatever row that now is
C5_SelectionSurvivesRefresh ==
    SelectionRefreshed =>
        /\ SelectionSynchronised
        /\ \A row \in Rows : EntryAt(row) = coverage_name => row = currentIndex

\* a delete-click that left the director's selection alone and moved its row
C5_Witness ==
    /\ last.kind = "clicked" /\ last.outcome = "done"
    /\ last.preName = coverage_name
    /\ last.preCur \in 0..(Len(last.pre) - 1)
    /\ last.pre[last.preCur + 1] = coverage_name
    /\ last.preCur # currentIndex

\* C6: after a refresh of the model the entry list is the director's special
\* names in order, the marker, then the director's user names in order, with
\* nothing of the previous list, and rowCount() is the length of that list
C6_ListRebuiltWholesale ==
    last.refreshed =>
        /\ entries = special_names \o <<SEPARATOR>> \o coverage_names
        /\ rowCount(entries) = Len(special_names) + 1 + Len(coverage_names)

\* a refresh that left a list shorter than the longest one: a deletion handled
\* with user entries remaining
C6_Witness ==
    /\ last.kind = "coverage_deleted"
    /\ Len(coverage_names) >= 1
    /\ rowCount(entries) >= 3

\* C7: commands go to the director only from a user activation (select) or a
\* user delete-click (delete); no notification makes the widget send a
\* command, and the signals are unblocked whenever _refresh_selection is over
C7_OnlyUserIntents ==
    /\ signalsBlocked = FALSE
    /\ last.kind \in Notifications \cup {"init"} => last.cmds = <<>>
    /\ \A i \in 1..Len(last.cmds) :
          /\ last.cmds[i].op = "select_coverage" => last.kind = "activated"
          /\ last.cmds[i].op = "delete_coverage" => last.kind = "clicked"

\* a notification handled through the full refresh, selection included
C7_Witness ==
    /\ last.kind = "coverage_modified"
    /\ currentIndex \in Rows
    /\ last.cmds = <<>>

\* C8: activating row r issues exactly one select_coverage carrying the name
\* of row r, leaves the entry list and the separator index as they were, and
\* the name is a special or user name, never the marker, never empty or None
C8_SelectForwardsName ==
    last.kind = "activated" =>
        /\ last.cmds = <<Command("select_coverage", last.pre[last.index.row + 1])>>
        /\ entries = last.pre
        /\ seperator_index = last.preSep
        /\ \A i \in 1..Len(last.cmds) :
              /\ last.cmds[i].name \in Range(special_names) \cup Range(coverage_names)
              /\ last.cmds[i].name \notin {SEPARATOR, None, ""}

\* an activation of a user row that was not the selection before
C8_Witness ==
    /\ last.kind = "activated"
    /\ last.index.row > last.preSep
    /\ last.preCur # currentIndex

\* C9: for every valid cell the delete icon is returned exactly when the
\* column is the delete column and the row is strictly below the separator
\* index; no cell of a special row, of the separator row or of the text
\* column has an icon
C9_IconOnlyBelowSeparator ==
    \A row \in Rows : \A column \in 0..(columnCount - 1) :
        LET icon == data(entries, seperator_index, index(entries, row, column),
                         "DecorationRole")
        IN  /\ icon = delete_icon <=> (column = COLUMN_DELETE /\ row > seperator_index)
            /\ icon # delete_icon => icon = None
            /\ (EntryAt(row) = SEPARATOR \/ EntryAt(row) \in Range(special_names)) =>
                  icon = None

\* a table with special rows, the separator and user rows to decorate
C9_Witness ==
    /\ seperator_index >= 1
    /\ rowCount(entries) > seperator_index + 1
    /\ EntryAt(seperator_index) = SEPARATOR

\* C10: after CoverageComboBoxView.refresh() a row is merged exactly when the
\* model classifies it SPECIAL or separator; every USER row has its own
\* delete cell, also one that was merged before the refresh
C10_SpansMatchRowTypes ==
    last.kind \in {"coverage_switched", "coverage_modified", "activated"} =>
        \A row \in Rows : row \in spans <=> RowType(row) # ENTRY_USER

\* everything but the history
state == <<special_names, coverage_names, coverage_name, entries, seperator_index,
           spans, currentIndex, signalsBlocked>>

\* C11: a delete-click with an invalid index returns, one on a valid index
\* whose column is not the delete column (or whose name is empty) fails an
\* assertion; either way no command is issued and the director, the entry
\* list, the separator index and the current selection stay as they were
C11_FailedClickHasNoEffect ==
    [][last'.kind = "clicked" =>
         /\ ~last'.index.valid => last'.outcome = "return"
         /\ (last'.index.valid /\ last'.index.column # COLUMN_DELETE) =>
               last'.outcome = "AssertionError"
         /\ last'.outcome # "done" => (last'.cmds = <<>> /\ state' = state)]_vars

\* a click on the merged separator row, which arrives with the text column
C11_Witness ==
    /\ last.kind = "clicked"
    /\ last.outcome = "AssertionError"
    /\ last.index.valid
    /\ last.index.column = COLUMN_COVERAGE_STRING
    /\ last.index.row = seperator_index
    /\ last.cmds = <<>>

\* C12: every cell of the separator row, text column and delete column, has
\* no item flags, and no activation or click on the separator row reaches
\* the select or delete handler
C12_SeparatorNotInteractive ==
    /\ seperator_index \in Rows =>
          \A column \in 0..(columnCount - 1) :
              flags(seperator_index, index(entries, seperator_index, column))
                  = NoItemFlags
    /\ (last.kind \in {"activated", "clicked"} /\ last.index.valid) =>
          last.index.row # last.preSep

====
